---- MODULE Spec2Model ----
(***************************************************************************)
(* A model of arm-image-installer: main()'s provisioning pipeline          *)
(* (src/arm-image-installer.py) and the modules it drives                  *)
(* (src/modules/{boards,partition,config,uboot,resize}.py).                *)
(*                                                                         *)
(* Strings the code inspects character by character (device paths, image   *)
(* paths, the answer typed at the prompt) are sequences of one-character   *)
(* strings.  Names the code only looks up (board names) are TLA+ strings.  *)
(***************************************************************************)
EXTENDS Integers, Sequences, FiniteSets, TLC

\* ------------------------------------------------------------------ bounds
\* Longest answer typed at the confirmation prompt.
MaxAnswerLen == 3

\* ---------------------------------------------------------- string helpers
\* str.startswith
StartsWith(s, p) == Len(p) <= Len(s) /\ SubSeq(s, 1, Len(p)) = p

\* str.endswith
EndsWith(s, p) == Len(p) <= Len(s) /\ SubSeq(s, Len(s) - Len(p) + 1, Len(s)) = p

\* the `in` operator on strings: p occurs somewhere in s
Contains(s, p) == \E i \in 1..(Len(s) - Len(p) + 1) : SubSeq(s, i, i + Len(p) - 1) = p

\* os.path.basename / pathlib.Path(...).name: what follows the last "/"
Basename(s) ==
    LET slashes == {i \in 1..Len(s) : s[i] = "/"}
        last == IF slashes = {} THEN 0
                ELSE CHOOSE i \in slashes : \A j \in slashes : j <= i
    IN SubSeq(s, last + 1, Len(s))

\* str.lower on the characters the prompt's answers are made of
LowerChar(c) ==
    CASE c = "Y" -> "y"
      [] c = "E" -> "e"
      [] c = "S" -> "s"
      [] c = "B" -> "b"
      [] c = "O" -> "o"
      [] c = "T" -> "t"
      [] c = "R" -> "r"
      [] OTHER -> c

Lower(s) == [i \in 1..Len(s) |-> LowerChar(s[i])]

\* str.strip: leading and trailing whitespace removed
Whitespace == {" ", "\n", "\t", "\r"}

RECURSIVE LStrip(_)
LStrip(s) == IF s # <<>> /\ Head(s) \in Whitespace THEN LStrip(Tail(s)) ELSE s

RECURSIVE RStrip(_)
RStrip(s) ==
    IF s # <<>> /\ s[Len(s)] \in Whitespace THEN RStrip(SubSeq(s, 1, Len(s) - 1)) ELSE s

Strip(s) == RStrip(LStrip(s))

\* all sequences over S of length at most n
SeqsUpTo(S, n) == UNION {[1..k -> S] : k \in 0..n}

\* ------------------------------------------------------------------ boards
BOARD_ALIASES ==
    ("rpi4" :> "RaspberryPi4-64") @@ ("pi4" :> "RaspberryPi4-64") @@
    ("rpi3" :> "RaspberryPi3-64") @@ ("pi3" :> "RaspberryPi3-64") @@
    ("x13s" :> "Thinkpad-X13s")

resolve_board_chained(target) ==
    IF target = "pi4" THEN "rpi4"
    ELSE IF target \in DOMAIN BOARD_ALIASES THEN BOARD_ALIASES[target] ELSE target

\* boards.resolve_board: BOARD_ALIASES.get(target, target)
resolve_board(target) ==
    IF target \in DOMAIN BOARD_ALIASES THEN BOARD_ALIASES[target] ELSE target

\* Python's None / an optional value: the empty sequence, or <<value>>
None == <<>>

BOARD_UBOOT_MAP ==
    ("pine64_plus"       :> <<[filename |-> "u-boot-sunxi-with-spl.bin", seek |-> 8]>>) @@
    ("nanopi_a64"        :> <<[filename |-> "u-boot-sunxi-with-spl.bin", seek |-> 8]>>) @@
    ("bananapi_m64"      :> <<[filename |-> "u-boot-sunxi-with-spl.bin", seek |-> 8]>>) @@
    ("sopine_baseboard"  :> <<[filename |-> "u-boot-sunxi-with-spl.bin", seek |-> 8]>>) @@
    ("rockpro64-rk3399"  :> <<[filename |-> "idbloader.img", seek |-> 64]>>) @@
    ("nanopi-r4s-rk3399" :> <<[filename |-> "idbloader.img", seek |-> 64]>>) @@
    ("rock-pi-4-rk3399"  :> <<[filename |-> "idbloader.img", seek |-> 64]>>) @@
    ("beagleplay"        :> <<[filename |-> "tiboot3.bin", seek |-> 64]>>) @@
    ("RaspberryPi4-64"   :> None) @@
    ("RaspberryPi3-64"   :> None) @@
    ("Thinkpad-X13s"     :> None)

\* BOARD_UBOOT_MAP.get(normalized) in install_uboot
uboot_entry(target) ==
    LET normalized == resolve_board(target)
    IN IF normalized \in DOMAIN BOARD_UBOOT_MAP THEN BOARD_UBOOT_MAP[normalized] ELSE None

\* validate_board's test: a non-empty list that lacks the canonical name
board_supported(target, boards) ==
    ~(boards # {} /\ resolve_board(target) \notin boards)

\* ------------------------------------------------------------------ device
Dev == <<"/", "d", "e", "v", "/">>

SAFE_DEVICE_PREFIXES ==
    { Dev \o <<"s", "d">>,
      Dev \o <<"m", "m", "c", "b", "l", "k">>,
      Dev \o <<"n", "v", "m", "e">> }

validate_media_device_exists_first(device, exists, partitions) ==
    IF ~exists THEN "notfound"
    ELSE IF ~\E prefix \in SAFE_DEVICE_PREFIXES : StartsWith(device, prefix) THEN "invalid"
    ELSE IF \E p \in partitions : StartsWith(p, device) THEN "busy"
    ELSE "ok"

\* partition.validate_media_device, given what os.path.exists and
\* psutil.disk_partitions answer: the three checks in the code's order
validate_media_device(device, exists, partitions) ==
    IF ~\E prefix \in SAFE_DEVICE_PREFIXES : StartsWith(device, prefix) THEN "invalid"
    ELSE IF ~exists THEN "notfound"
    ELSE IF \E p \in partitions : StartsWith(p, device) THEN "busy"
    ELSE "ok"

\* ------------------------------------------------------------------- image
\* validate_image_format's test
image_format_ok(image_path) ==
    \/ EndsWith(image_path, <<".", "x", "z">>)
    \/ EndsWith(image_path, <<".", "r", "a", "w">>)
    \/ ~Contains(Basename(image_path), <<".">>)

is_iot_image(image_path) == Contains(Basename(image_path), <<"I", "o", "T">>)

\* ------------------------------------------------------------------ inputs
Targets == {"rpi4", "pine64_plus", "bogus"}

\* what load_supported_boards may return: no file / an empty file, or a list
SupportedLists == { {}, {"RaspberryPi4-64", "pine64_plus"} }

\* the --media paths of the runs: two that pass the prefix test, two that fail
Medias ==
    { Dev \o <<"s", "d", "a">>,
      Dev \o <<"m", "m", "c", "b", "l", "k", "0">>,
      Dev \o <<"l", "o", "o", "p", "0">>,
      Dev \o <<"s">> }

\* device paths psutil.disk_partitions(all=True) may list
MountedPartitionLists ==
    LET vda1 == Dev \o <<"v", "d", "a", "1">>
    IN { {},
         {vda1},
         {vda1, Dev \o <<"s", "d", "a", "1">>},
         {vda1, Dev \o <<"m", "m", "c", "b", "l", "k", "0", "p", "1">>},
         {vda1, Dev \o <<"n", "v", "m", "e", "0">>},
         {vda1, Dev \o <<"l", "o", "o", "p", "0">>} }

\* the --image paths of the runs: compressed, no extension (an IoT image in
\* a directory with a dot in its name), and an unsupported extension
Images ==
    { <<"f", ".", "x", "z">>,
      <<"d", ".", "d", "/", "I", "o", "T">>,
      <<"f", ".", "z", "i", "p">> }

AnswerChars == {"y", "Y", "e", "s", " ", "n"}

Answers == SeqsUpTo(AnswerChars, MaxAnswerLen)

\* the option flags of parse_args that main and the modules read
Flags == {"dry_run", "assumeyes", "resizefs", "addkey", "norootpass",
          "relabel", "cmdline", "ign_url", "wifi_ssid"}

\* ------------------------------------------------------------------- state
VARIABLES
    pc,        \* where main() is
    args,      \* the parsed request: target, media, image, flags
    hist,      \* the operations performed so far, each with its outcome
    log,       \* the log entries emitted so far
    exc,       \* the exception in flight ("none": none)
    status,    \* the process exit status once pc = "exit" (-1 while running)
    mounted,   \* the mount points that hold a mounted filesystem
    device,    \* the target device's content
    probe,     \* what the system answers to the function under study, and its result
    parts,     \* find_partitions' result, <<boot_part, root_part>>
    tempdir    \* the TemporaryDirectory of main

vars == <<pc, args, hist, log, exc, status, mounted, device, probe, parts, tempdir>>

NoExc == [type |-> "none", origin |-> "none"]

Exc(type, origin) == [type |-> type, origin |-> origin]

Op(name, ok) == [op |-> name, ok |-> ok]

Entry(kind, what) == [kind |-> kind, what |-> what]

Has(flag) == flag \in args.flags

\* the interpreter's exit status: 0 on a normal return or sys.exit(0), 1 on
\* sys.exit(1), sys.exit("message"), SystemExit(1) and an uncaught exception
exit_status(e) == IF e.type \in {"none", "SystemExit0"} THEN 0 ELSE 1

Init ==
    /\ pc = "start"
    /\ args \in [target : Targets, media : Medias, image : Images, flags : SUBSET Flags]
    /\ hist = <<>>
    /\ log = {}
    /\ exc = NoExc
    /\ status = -1
    /\ mounted = {}
    /\ device = "untouched"
    /\ probe = [exists |-> FALSE, partitions |-> {}, result |-> "unchecked"]
    /\ parts = <<>>
    /\ tempdir = "none"

\* the process ends outside every with block
Exits(e) == pc' = "exit" /\ exc' = e /\ status' = exit_status(e)

\* an exception leaves the body of `with tempfile.TemporaryDirectory()`
Raises(e) == pc' = "cleanup" /\ exc' = e /\ UNCHANGED status

\* main, up to the root check
Start ==
    /\ pc = "start"
    /\ \E listboards \in BOOLEAN, root \in BOOLEAN :
          IF listboards THEN Exits(Exc("SystemExit0", "listboards"))
          ELSE IF ~root THEN Exits(Exc("SystemExit", "geteuid"))
          ELSE pc' = "validate_board" /\ UNCHANGED <<exc, status>>
    /\ UNCHANGED <<args, hist, log, mounted, device, probe, parts, tempdir>>

\* boards.validate_board
ValidateBoard ==
    /\ pc = "validate_board"
    /\ \E boards \in SupportedLists :
          LET ok == board_supported(args.target, boards)
          IN /\ hist' = Append(hist, Op("validate_board", ok))
             /\ IF ok THEN pc' = "confirm" /\ UNCHANGED <<exc, status, log>>
                ELSE /\ Exits(Exc("SystemExit", "validate_board"))
                     /\ log' = log \cup {Entry("error", "unsupported_board")}
    /\ UNCHANGED <<args, mounted, device, probe, parts, tempdir>>

\* print_summary_and_confirm: the options the summary names
summary_entries ==
    {Entry("summary", f) : f \in args.flags \cap
        {"addkey", "norootpass", "relabel", "resizefs", "wifi_ssid", "cmdline", "ign_url"}}
    \cup {Entry("summary", "image"), Entry("summary", "media"), Entry("summary", "board")}

\* print_summary_and_confirm: whether the prompt is shown
prompt_needed_inverted == ~Has("dry_run") /\ Has("assumeyes")

prompt_needed == ~Has("dry_run") /\ ~Has("assumeyes")

\* print_summary_and_confirm: whether the typed answer lets the run go on
answer_accepted(answer) ==
    Lower(Strip(answer)) \in {<<"y">>, <<"y", "e", "s">>}

Confirm ==
    /\ pc = "confirm"
    /\ log' = log \cup summary_entries
    /\ IF prompt_needed
       THEN \E answer \in Answers :
              LET ok == answer_accepted(answer)
              IN /\ hist' = Append(hist, Op("confirm", ok))
                 /\ IF ok THEN pc' = "validate_media_device" /\ UNCHANGED <<exc, status>>
                    ELSE Exits(Exc("SystemExit", "confirm"))
       ELSE pc' = "validate_media_device" /\ UNCHANGED <<hist, exc, status>>
    /\ UNCHANGED <<args, mounted, device, probe, parts, tempdir>>

\* partition.validate_media_device, as main calls it: os.path.exists and
\* psutil.disk_partitions answer for the system the run is on
ValidateMediaDevice ==
    /\ pc = "validate_media_device"
    /\ \E exists \in BOOLEAN, partitions \in MountedPartitionLists :
          LET result == validate_media_device(args.media, exists, partitions)
          IN /\ hist' = Append(hist, Op("validate_media_device", result = "ok"))
             /\ IF result = "ok" THEN pc' = "write" /\ UNCHANGED <<exc, status>>
                ELSE Exits(Exc("SystemExit", "validate_media_device"))
    /\ UNCHANGED <<args, log, mounted, device, probe, parts, tempdir>>

\* stream_write_image (not dry-run, format accepted): validate_image_format
\* has returned before the device is opened for writing
write_image_ops_write_first(outcome) ==
    <<Op("write_image", outcome = "ok"), Op("validate_image_format", TRUE)>>

write_image_ops(outcome) ==
    <<Op("validate_image_format", TRUE), Op("write_image", outcome = "ok")>>

\* stream_write_image: the format check, then the copy
StreamWriteImage ==
    /\ pc = "write"
    /\ IF ~image_format_ok(args.image)
       THEN /\ hist' = Append(hist, Op("validate_image_format", FALSE))
            /\ Exits(Exc("SystemExit", "validate_image_format"))
            /\ UNCHANGED <<log, device>>
       ELSE IF Has("dry_run")
       THEN /\ hist' = Append(hist, Op("validate_image_format", TRUE))
            /\ log' = log \cup {Entry("dry-run", "write_image")}
            /\ pc' = "find_partitions"
            /\ UNCHANGED <<exc, status, device>>
       ELSE \E outcome \in {"ok", "open_failed", "copy_failed"} :
            /\ hist' = hist \o write_image_ops(outcome)
            /\ device' = CASE outcome = "ok" -> "image"
                           [] outcome = "open_failed" -> device
                           [] outcome = "copy_failed" -> "partial"
            /\ IF outcome = "ok" THEN pc' = "find_partitions" /\ UNCHANGED <<exc, status>>
               ELSE Exits(Exc("OSError", "write_image"))
            /\ UNCHANGED log
    /\ UNCHANGED <<args, mounted, probe, parts, tempdir>>

\* the lines lsblk -ln -o NAME,PARTLABEL may print for a device, each split
\* into its fields (the kernel names partitions sda1 but mmcblk0p1): nothing,
\* the labelled three-partition layout, an unlabelled one, one with only a
\* boot label
Listings(media) ==
    LET n == Basename(media)
        p == IF StartsWith(n, <<"s", "d">>) THEN n ELSE n \o <<"p">>
    IN { <<>>,
         << <<n>>, <<p \o <<"1">>>>, <<p \o <<"2">>, <<"b", "o", "o", "t">>>>,
            <<p \o <<"3">>, <<"r", "o", "o", "t">>>> >>,
         << <<n>>, <<p \o <<"1">>>>, <<p \o <<"2">>>>, <<p \o <<"3">>>> >>,
         << <<n>>, <<p \o <<"1">>, <<"B", "O", "O", "T">>>>, <<p \o <<"2">>>> >> }

\* find_partitions' loop over the lines: the last line with "boot" (resp.
\* "root", when the label has no "boot") in its lowered label, or None
RECURSIVE scan_partitions(_, _, _)
scan_partitions(lines, boot_part, root_part) ==
    IF lines = <<>> THEN <<boot_part, root_part>>
    ELSE LET fields == Head(lines)
             label == IF Len(fields) > 1 THEN fields[2] ELSE <<>>
             full_device == Dev \o fields[1]
         IN IF fields = <<>> THEN scan_partitions(Tail(lines), boot_part, root_part)
            ELSE IF Contains(Lower(label), <<"b", "o", "o", "t">>)
            THEN scan_partitions(Tail(lines), <<full_device>>, root_part)
            ELSE IF Contains(Lower(label), <<"r", "o", "o", "t">>)
            THEN scan_partitions(Tail(lines), boot_part, <<full_device>>)
            ELSE scan_partitions(Tail(lines), boot_part, root_part)

\* partition.find_partitions on lsblk's output
find_partitions(media, lines) ==
    LET found == scan_partitions(lines, None, None)
    IN IF found[1] = None \/ found[2] = None
       THEN <<media \o <<"2">>, media \o <<"3">>>>
       ELSE <<found[1][1], found[2][1]>>

\* partition.find_partitions, as main calls it (dry-run or not)
FindPartitions ==
    /\ pc = "find_partitions"
    /\ \/ /\ hist' = Append(hist, Op("lsblk", FALSE))
          /\ Exits(Exc("CalledProcessError", "lsblk"))
          /\ UNCHANGED parts
       \/ \E lines \in Listings(args.media) :
          /\ hist' = Append(hist, Op("lsblk", TRUE))
          /\ parts' = find_partitions(args.media, lines)
          /\ pc' = "tempdir"
          /\ UNCHANGED <<exc, status>>
    /\ UNCHANGED <<args, log, mounted, device, probe, tempdir>>

\* main: where control goes once the mount block is over (or skipped)
after_mount_block == IF Has("resizefs") THEN "grow" ELSE "cleanup"

\* main: the TemporaryDirectory is entered, the mount points are made, and
\* under dry-run the whole mount block is replaced by one log line
EnterTempDir ==
    /\ pc = "tempdir"
    /\ tempdir' = "exists"
    /\ IF Has("dry_run")
       THEN /\ log' = log \cup {Entry("dry-run", "mount_and_configure")}
            /\ pc' = after_mount_block
       ELSE /\ pc' = "mount_boot"
            /\ UNCHANGED log
    /\ UNCHANGED <<args, hist, exc, status, mounted, device, probe, parts>>

\* ------------------------------------------------------- the mount block
\* A function body as the steps it takes in order: an "op" touches the media
\* and may raise, a "warn" only logs and goes on.
Step(kind, what) == [kind |-> kind, what |-> what]

\* where a body may stop: 0 (it runs to its end) or the op that raises
FailPoints(steps) == {0} \cup {i \in 1..Len(steps) : steps[i].kind = "op"}

Reached(steps, fail_at) == IF fail_at = 0 THEN Len(steps) ELSE fail_at

\* the operations performed when the body stops at fail_at
PerformedOps(steps, fail_at) ==
    LET n == Reached(steps, fail_at)
        marked == [i \in 1..n |-> [kind |-> steps[i].kind, what |-> steps[i].what,
                                   ok |-> i # fail_at]]
        ops == SelectSeq(marked, LAMBDA m : m.kind = "op")
    IN [i \in 1..Len(ops) |-> Op(ops[i].what, ops[i].ok)]

\* the warnings logged when the body stops at fail_at
LoggedWarnings(steps, fail_at) ==
    {Entry("warning", steps[i].what) :
        i \in {j \in 1..Reached(steps, fail_at) : steps[j].kind = "warn"}}

Optional(cond, step) == IF cond THEN <<step>> ELSE <<>>

\* config.apply_post_write_configs (not dry-run): key, shadow, relabel marker
post_write_steps ==
    Optional(Has("addkey"), Step("op", "edit_authorized_keys"))
    \o Optional(Has("norootpass"), Step("op", "edit_shadow"))
    \o Optional(Has("relabel"), Step("op", "create_autorelabel"))

\* config.apply_bootloader_configs (not dry-run): the entry files are
\* rewritten whenever the directory exists, whatever the flags
bootloader_steps(loader_exists, ign_exists) ==
    <<IF loader_exists THEN Step("op", "edit_loader_entries")
      ELSE Step("warn", "loader_entries_missing")>>
    \o Optional(Has("ign_url") /\ is_iot_image(args.image) /\ ign_exists,
                Step("op", "edit_ignition"))
    \o Optional(Has("ign_url") /\ is_iot_image(args.image) /\ ~ign_exists,
                Step("warn", "ignition_file_missing"))
    \o Optional(Has("ign_url") /\ ~is_iot_image(args.image),
                Step("warn", "ignition_not_iot"))
    \o Optional(Has("wifi_ssid"), Step("op", "write_wifi"))

\* mounted_partition (not dry-run), entering: mount, check=True
MountBoot ==
    /\ pc = "mount_boot"
    /\ \E ok \in BOOLEAN :
          /\ hist' = Append(hist, Op("mount_boot", ok))
          /\ IF ok THEN /\ mounted' = mounted \cup {"boot"}
                        /\ pc' = "mount_root"
                        /\ UNCHANGED <<exc, status>>
             ELSE /\ Raises(Exc("CalledProcessError", "mount_boot"))
                  /\ UNCHANGED mounted
    /\ UNCHANGED <<args, log, device, probe, parts, tempdir>>

\* the second context manager of the with statement: a failed mount leaves
\* through the first one's finally
MountRoot ==
    /\ pc = "mount_root"
    /\ \E ok \in BOOLEAN :
          /\ hist' = Append(hist, Op("mount_root", ok))
          /\ IF ok THEN /\ mounted' = mounted \cup {"root"}
                        /\ pc' = "post_write"
                        /\ UNCHANGED exc
             ELSE /\ exc' = Exc("CalledProcessError", "mount_root")
                  /\ pc' = "umount_boot"
                  /\ UNCHANGED mounted
    /\ UNCHANGED <<args, log, status, device, probe, parts, tempdir>>

\* mounted_partition's try/finally: whatever the body did, the umount is next
body_exit_no_finally(e) == IF e = NoExc THEN "umount_root" ELSE "cleanup"

body_exit(e) == "umount_root"

ApplyPostWriteConfigs ==
    /\ pc = "post_write"
    /\ \E fail_at \in FailPoints(post_write_steps) :
          /\ hist' = hist \o PerformedOps(post_write_steps, fail_at)
          /\ exc' = IF fail_at = 0 THEN NoExc
                    ELSE Exc("OSError", post_write_steps[fail_at].what)
          /\ pc' = IF fail_at = 0 THEN "bootloader_configs" ELSE body_exit(exc')
    /\ UNCHANGED <<args, log, status, mounted, device, probe, parts, tempdir>>

ApplyBootloaderConfigs ==
    /\ pc = "bootloader_configs"
    /\ \E loader_exists \in BOOLEAN, ign_exists \in BOOLEAN :
          LET steps == bootloader_steps(loader_exists, ign_exists)
          IN \E fail_at \in FailPoints(steps) :
                /\ hist' = hist \o PerformedOps(steps, fail_at)
                /\ log' = log \cup LoggedWarnings(steps, fail_at)
                /\ exc' = IF fail_at = 0 THEN NoExc
                          ELSE Exc("OSError", steps[fail_at].what)
                /\ pc' = IF fail_at = 0 THEN "install_uboot" ELSE body_exit(exc')
    /\ UNCHANGED <<args, status, mounted, device, probe, parts, tempdir>>

\* dd's block size in install_uboot
DD_BLOCK_SIZE == 1024

pick_uboot_bin_host_first(image_exists, host_exists) ==
    IF host_exists THEN "host" ELSE IF image_exists THEN "image" ELSE "none"

\* install_uboot's search for the binary: the one under the image's root
\* first, then the host's, or none
pick_uboot_bin(image_exists, host_exists) ==
    IF image_exists THEN "image" ELSE IF host_exists THEN "host" ELSE "none"

\* uboot.install_uboot for given answers of the two exists() tests: what it
\* does and how it ends (bin: the binary picked; dd: the command run, if any)
uboot_outcomes(target, media, dry_run, image_exists, host_exists) ==
    IF uboot_entry(target) = None
    THEN {[ops |-> <<>>, log |-> {Entry("info", "uboot_not_required")},
           exc |-> NoExc, bin |-> "none", dd |-> None]}
    ELSE LET uboot_bin == pick_uboot_bin(image_exists, host_exists)
             command == [if |-> uboot_bin, of |-> media, bs |-> DD_BLOCK_SIZE,
                         seek |-> uboot_entry(target)[1].seek, conv |-> "fsync"]
         IN IF uboot_bin = "none"
            THEN {[ops |-> <<Op("uboot_lookup", FALSE)>>,
                   log |-> {Entry("error", "uboot_not_found")},
                   exc |-> Exc("SystemExit", "uboot_lookup"), bin |-> "none", dd |-> None]}
            ELSE IF dry_run
            THEN {[ops |-> <<Op("uboot_lookup", TRUE)>>,
                   log |-> {Entry("dry-run", "dd")},
                   exc |-> NoExc, bin |-> uboot_bin, dd |-> None]}
            ELSE {[ops |-> <<Op("uboot_lookup", TRUE), Op("dd", TRUE)>>,
                   log |-> {},
                   exc |-> NoExc, bin |-> uboot_bin, dd |-> <<command>>],
                  [ops |-> <<Op("uboot_lookup", TRUE), Op("dd", FALSE)>>,
                   log |-> {Entry("error", "dd_failed")},
                   exc |-> Exc("SystemExit", "dd"), bin |-> uboot_bin, dd |-> <<command>>]}

\* uboot.install_uboot as main calls it: every answer of the two exists()
\* tests and of dd
install_uboot(target, dry_run) ==
    { [ops |-> o.ops, log |-> o.log, exc |-> o.exc, bin |-> o.bin] :
        o \in UNION { uboot_outcomes(target, args.media, dry_run, image_exists, host_exists) :
                         image_exists \in BOOLEAN, host_exists \in BOOLEAN } }

InstallUboot ==
    /\ pc = "install_uboot"
    /\ \E out \in install_uboot(resolve_board(args.target), Has("dry_run")) :
          /\ hist' = hist \o out.ops
          /\ log' = log \cup out.log
          /\ exc' = out.exc
          /\ pc' = body_exit(exc')
    /\ UNCHANGED <<args, status, mounted, device, probe, parts, tempdir>>

\* mounted_partition's finally: umount, check=True.  A failed umount raises
\* from the finally clause, in place of whatever was in flight.
exc_after_umount(pending, ok, origin) ==
    IF ok THEN pending ELSE Exc("CalledProcessError", origin)

after_umount_root_skipping_boot(ok) == IF ok THEN "umount_boot" ELSE "cleanup"

\* the inner context manager is left, its umount done or failed: the outer
\* one's finally is next either way
after_umount_root(ok) == "umount_boot"

UmountRoot ==
    /\ pc = "umount_root"
    /\ \E ok \in BOOLEAN :
          /\ hist' = Append(hist, Op("umount_root", ok))
          /\ mounted' = IF ok THEN mounted \ {"root"} ELSE mounted
          /\ exc' = exc_after_umount(exc, ok, "umount_root")
          /\ pc' = after_umount_root(ok)
    /\ UNCHANGED <<args, log, status, device, probe, parts, tempdir>>

\* leaving the with statement: an exception in flight goes on to the
\* TemporaryDirectory's exit, otherwise main goes on after the block
after_umount_boot_swallow(e) == after_mount_block

after_umount_boot(e) == IF e = NoExc THEN after_mount_block ELSE "cleanup"

UmountBoot ==
    /\ pc = "umount_boot"
    /\ \E ok \in BOOLEAN :
          /\ hist' = Append(hist, Op("umount_boot", ok))
          /\ mounted' = IF ok THEN mounted \ {"boot"} ELSE mounted
          /\ exc' = exc_after_umount(exc, ok, "umount_boot")
          /\ pc' = after_umount_boot(exc')
    /\ UNCHANGED <<args, log, status, device, probe, parts, tempdir>>

\* ------------------------------------------------------------------ resize
\* partition.grow_partition
GrowPartition ==
    /\ pc = "grow"
    /\ IF Has("dry_run")
       THEN /\ log' = log \cup {Entry("dry-run", "parted")}
            /\ pc' = "resize"
            /\ UNCHANGED <<hist, exc>>
       ELSE \E ok \in BOOLEAN :
            /\ hist' = Append(hist, Op("parted", ok))
            /\ IF ok THEN pc' = "resize" /\ UNCHANGED <<exc, log>>
               ELSE /\ log' = log \cup {Entry("error", "parted_failed")}
                    /\ pc' = "cleanup"
                    /\ exc' = Exc("CalledProcessError", "parted")
    /\ UNCHANGED <<args, status, mounted, device, probe, parts, tempdir>>

safe_run_all_unchecked(cmds) ==
    {[ops |-> [i \in 1..Len(cmds) |-> Op(cmds[i], i \notin failed)],
      log |-> {},
      exc |-> NoExc] : failed \in SUBSET (1..Len(cmds))}

\* resize.safe_run over a list of commands, one after the other: every way
\* it can end (each command may fail, and sys.exit follows the first failure)
safe_run_all(cmds) ==
    {[ops |-> [i \in 1..Len(cmds) |-> Op(cmds[i], TRUE)], log |-> {}, exc |-> NoExc]}
    \cup
    {[ops |-> [i \in 1..k |-> Op(cmds[i], i < k)],
      log |-> {Entry("error", "command_failed")},
      exc |-> Exc("SystemExit", cmds[k])] : k \in 1..Len(cmds)}

FsTypes == {"ext4", "xfs", "btrfs", "vfat"}

\* what findmnt -n -o TARGET may print for the partition: nothing, a line
\* break only, or a mount point
FindmntOutputs ==
    { <<>>, <<"\n">>, <<"/", "m", "n", "t", "\n">>, <<"/", "r", "u", "n", "/", "a", "\n">> }

btrfs_mountpoint_default(findmnt_output) == <<"/", "m", "n", "t">>

\* find_btrfs_mountpoint's reading of findmnt's output: stdout.strip()
btrfs_mountpoint(findmnt_output) == Strip(findmnt_output)

\* resize.resize_root_partition after detect_filesystem_type answered
\* fs_type, findmnt printing findmnt_output if it is asked (at: where the
\* btrfs resize is run, if it is)
resize_with(fs_type, findmnt_output) ==
    CASE fs_type = "ext4" ->
            {[ops |-> o.ops, log |-> o.log, exc |-> o.exc, at |-> None] :
                o \in safe_run_all(<<"e2fsck", "resize2fs">>)}
      [] fs_type = "xfs" ->
            {[ops |-> o.ops, log |-> o.log, exc |-> o.exc, at |-> None] :
                o \in safe_run_all(<<"xfs_growfs">>)}
      [] fs_type = "btrfs" ->
            {[ops |-> o.ops, log |-> o.log, exc |-> o.exc, at |-> None] :
                o \in {f \in safe_run_all(<<"findmnt">>) : f.exc # NoExc}}
            \cup
            (IF btrfs_mountpoint(findmnt_output) = <<>>
             THEN {[ops |-> <<Op("findmnt", TRUE)>>,
                    log |-> {},
                    exc |-> Exc("SystemExit", "find_btrfs_mountpoint"),
                    at |-> None]}
             ELSE {[ops |-> <<Op("findmnt", TRUE)>> \o o.ops, log |-> o.log, exc |-> o.exc,
                    at |-> <<btrfs_mountpoint(findmnt_output)>>] :
                      o \in safe_run_all(<<"btrfs_resize">>)})
      [] OTHER ->
            {[ops |-> <<>>, log |-> {}, exc |-> Exc("SystemExit", "unsupported_fs"),
              at |-> None]}

\* resize.resize_root_partition, after detect_filesystem_type answered
\* fs_type: every way it can go on, whatever findmnt prints
resize_dispatch(fs_type) ==
    { [ops |-> o.ops, log |-> o.log, exc |-> o.exc] :
        o \in UNION { resize_with(fs_type, findmnt_output) :
                         findmnt_output \in FindmntOutputs } }

\* the [DRY-RUN] entries of the ext4 path detect_filesystem_type simulates
resize_dry_run_log ==
    {Entry("dry-run", "detect_fs"), Entry("dry-run", "e2fsck"), Entry("dry-run", "resize2fs")}

resize_root_partition_ignoring_dry_run(dry_run) ==
    UNION {{[ops |-> <<Op("blkid", TRUE)>> \o o.ops, log |-> o.log, exc |-> o.exc] :
               o \in resize_dispatch(fs_type)} : fs_type \in FsTypes}

\* resize.resize_root_partition for given answers of blkid and findmnt
resize_outcomes(dry_run, blkid_ok, fs_type, findmnt_output) ==
    IF dry_run
    THEN {[ops |-> <<>>, log |-> resize_dry_run_log, exc |-> NoExc, at |-> None]}
    ELSE IF ~blkid_ok
    THEN {[ops |-> <<Op("blkid", FALSE)>>,
           log |-> {Entry("error", "command_failed")},
           exc |-> Exc("SystemExit", "blkid"), at |-> None]}
    ELSE {[ops |-> <<Op("blkid", TRUE)>> \o o.ops, log |-> o.log, exc |-> o.exc,
           at |-> o.at] : o \in resize_with(fs_type, findmnt_output)}

\* resize.resize_root_partition as main calls it: every answer of blkid and
\* findmnt
resize_root_partition(dry_run) ==
    { [ops |-> o.ops, log |-> o.log, exc |-> o.exc] :
        o \in UNION { resize_outcomes(dry_run, blkid_ok, fs_type, findmnt_output) :
                         blkid_ok \in BOOLEAN, fs_type \in FsTypes,
                         findmnt_output \in FindmntOutputs } }

ResizeRootPartition ==
    /\ pc = "resize"
    /\ \E out \in resize_root_partition(Has("dry_run")) :
          /\ hist' = hist \o out.ops
          /\ log' = log \cup out.log
          /\ exc' = out.exc
          /\ pc' = "cleanup"
    /\ UNCHANGED <<args, status, mounted, device, probe, parts, tempdir>>

\* --------------------------------------------------------------- the end
\* TemporaryDirectory.__exit__, then main's last line or the exception's way out
Cleanup ==
    /\ pc = "cleanup"
    /\ tempdir' = IF mounted = {} THEN "removed" ELSE "removed_over_mount"
    /\ log' = IF exc = NoExc THEN log \cup {Entry("info", "completed")} ELSE log
    /\ pc' = "exit"
    /\ status' = exit_status(exc)
    /\ UNCHANGED <<args, hist, exc, mounted, device, probe, parts>>

\* ------------------------------------- validate_media_device on its own
\* device paths a caller may pass
DevicePaths ==
    Medias \cup { Dev \o <<"n", "v", "m", "e", "0">>,
                  Dev \o <<"s", "d">>,
                  <<"/", "t", "m", "p", "/", "s", "d", "a">>,
                  Dev \o <<"s", "d", "a", "1">> }

InitDevice ==
    /\ pc = "call_validate_media_device"
    /\ args \in [target : {"rpi4"}, media : DevicePaths,
                 image : {<<"f", ".", "x", "z">>}, flags : {{}}]
    /\ hist = <<>>
    /\ log = {}
    /\ exc = NoExc
    /\ status = -1
    /\ mounted = {}
    /\ device = "untouched"
    /\ probe \in [exists : BOOLEAN, partitions : MountedPartitionLists,
                  result : {"unchecked"}]
    /\ parts = <<>>
    /\ tempdir = "none"

\* one call of partition.validate_media_device on the system probe describes
CallValidateMediaDevice ==
    /\ pc = "call_validate_media_device"
    /\ LET result == validate_media_device(args.media, probe.exists, probe.partitions)
       IN /\ probe' = [probe EXCEPT !.result = result]
          /\ hist' = Append(hist, Op("validate_media_device", result = "ok"))
          /\ IF result = "ok" THEN pc' = "returned" /\ UNCHANGED <<exc, status>>
             ELSE Exits(Exc("SystemExit", "validate_media_device"))
    /\ UNCHANGED <<args, log, mounted, device, parts, tempdir>>

NextDevice == CallValidateMediaDevice

SpecDevice == InitDevice /\ [][NextDevice]_vars

\* ----------------------------------------------- find_partitions on its own
MaxParts == 3

\* the digit lsblk prints for the i-th partition
Digit(i) == <<"1", "2", "3", "4", "5", "6", "7", "8", "9">>[i]

\* partition labels (PARTLABEL), each as its whitespace-separated words: none,
\* "boot", "Root", "efi", and the two-word "my boot"
PartLabels ==
    { <<>>,
      << <<"b", "o", "o", "t">> >>,
      << <<"R", "o", "o", "t">> >>,
      << <<"e", "f", "i">> >>,
      << <<"m", "y">>, <<"b", "o", "o", "t">> >> }

\* what line.strip().split() makes of the row lsblk prints for a partition:
\* its name, then the words of its label
lsblk_row(name, label) == <<name>> \o label

\* lsblk's output for a disk with the given partition labels: the row of the
\* disk itself, then one row per partition
lsblk_rows(media, labels) ==
    LET n == Basename(media)
        p == IF StartsWith(n, <<"s", "d">>) THEN n ELSE n \o <<"p">>
    IN << <<n>> >> \o [i \in 1..Len(labels) |-> lsblk_row(p \o <<Digit(i)>>, labels[i])]

PartitionMedias == { Dev \o <<"s", "d", "a">>, Dev \o <<"m", "m", "c", "b", "l", "k", "0">> }

InitPartitions ==
    /\ pc = "call_find_partitions"
    /\ args \in [target : {"rpi4"}, media : PartitionMedias,
                 image : {<<"f", ".", "x", "z">>}, flags : {{}}]
    /\ hist = <<>>
    /\ log = {}
    /\ exc = NoExc
    /\ status = -1
    /\ mounted = {}
    /\ device = "written"
    /\ probe \in [lsblk_ok : BOOLEAN, labels : SeqsUpTo(PartLabels, MaxParts),
                  printed : BOOLEAN]
    /\ parts = <<>>
    /\ tempdir = "none"

\* one call of partition.find_partitions: lsblk fails (check=True raises), or
\* prints nothing, or prints the rows of the disk
CallFindPartitions ==
    /\ pc = "call_find_partitions"
    /\ hist' = Append(hist, Op("lsblk", probe.lsblk_ok))
    /\ IF probe.lsblk_ok
       THEN /\ parts' = find_partitions(args.media,
                           IF probe.printed THEN lsblk_rows(args.media, probe.labels)
                           ELSE <<>>)
            /\ pc' = "returned"
            /\ UNCHANGED <<exc, status>>
       ELSE /\ Exits(Exc("CalledProcessError", "lsblk"))
            /\ UNCHANGED parts
    /\ UNCHANGED <<args, log, mounted, device, probe, tempdir>>

NextPartitions == CallFindPartitions

SpecPartitions == InitPartitions /\ [][NextPartitions]_vars

\* ------------------------------------------------- validate_board on its own
MaxBoardLines == 2

\* the words of the SUPPORTED-BOARDS vocabulary that end in "Devices:"
DevicesWords == {"Devices:", "rk33xxDevices:"}

\* lines a SUPPORTED-BOARDS file may hold, each as the words of
\* line.strip().split(): a blank line, section headers, lines of board names
BoardLines ==
    { <<>>,
      <<"AllWinner", "Devices:">>,
      <<"pine64_plus", "rk33xxDevices:">>,
      <<"Devices:", "pine64_plus">>,
      <<"RaspberryPi4-64", "RaspberryPi3-64">> }

\* the file: None when it does not exist, or <<its lines>>
BoardFiles == {None} \cup { <<lines>> : lines \in SeqsUpTo(BoardLines, MaxBoardLines) }

\* clean_line.endswith("Devices:"), on a non-blank line
ends_with_devices(words) == words[Len(words)] \in DevicesWords

load_supported_boards_counting_headers(file) ==
    IF file = None THEN {}
    ELSE UNION { { file[1][i][j] : j \in 1..Len(file[1][i]) } : i \in 1..Len(file[1]) }

\* boards.load_supported_boards: the words of every line that is not blank
\* and does not end in "Devices:"; nothing when the file is missing
load_supported_boards(file) ==
    IF file = None THEN {}
    ELSE UNION { { file[1][i][j] : j \in 1..Len(file[1][i]) } :
                   i \in { k \in 1..Len(file[1]) :
                             file[1][k] # <<>> /\ ~ends_with_devices(file[1][k]) } }

BoardNames ==
    DOMAIN BOARD_ALIASES \cup {"RaspberryPi4-64", "pine64_plus", "bogus", "Devices:"}

InitBoards ==
    /\ pc = "call_validate_board"
    /\ args \in [target : BoardNames, media : {Dev \o <<"s", "d", "a">>},
                 image : {<<"f", ".", "x", "z">>}, flags : {{}}]
    /\ hist = <<>>
    /\ log = {}
    /\ exc = NoExc
    /\ status = -1
    /\ mounted = {}
    /\ device = "untouched"
    /\ probe \in [file : BoardFiles, boards : {{}}, canonical : {None}]
    /\ parts = <<>>
    /\ tempdir = "none"

\* one call of boards.validate_board(target)
CallValidateBoard ==
    /\ pc = "call_validate_board"
    /\ LET boards == load_supported_boards(probe.file)
           ok == board_supported(args.target, boards)
       IN /\ probe' = [probe EXCEPT !.boards = boards,
                                    !.canonical = <<resolve_board(args.target)>>]
          /\ hist' = Append(hist, Op("validate_board", ok))
          /\ log' = (IF probe.file = None THEN {Entry("warning", "boards_file_missing")} ELSE {})
                    \cup (IF ok THEN {} ELSE {Entry("error", "unsupported_board")})
          /\ IF ok THEN pc' = "returned" /\ UNCHANGED <<exc, status>>
             ELSE Exits(Exc("SystemExit", "validate_board"))
    /\ UNCHANGED <<args, mounted, device, parts, tempdir>>

NextBoards == CallValidateBoard

SpecBoards == InitBoards /\ [][NextBoards]_vars

\* ------------------------------------------ root password removal on its own
MaxShadowLines == 2

MaxShadowFields == 3

\* str.split(c): the pieces between the occurrences of the character c
RECURSIVE Split(_, _)
Split(s, c) ==
    IF \A i \in 1..Len(s) : s[i] # c THEN <<s>>
    ELSE LET i == CHOOSE k \in 1..Len(s) :
                     s[k] = c /\ \A j \in 1..(k - 1) : s[j] # c
         IN <<SubSeq(s, 1, i - 1)>> \o Split(SubSeq(s, i + 1, Len(s)), c)

\* c.join(pieces)
RECURSIVE Join(_, _)
Join(pieces, c) ==
    IF pieces = <<>> THEN <<>>
    ELSE IF Len(pieces) = 1 THEN pieces[1]
    ELSE pieces[1] \o <<c>> \o Join(Tail(pieces), c)

\* the concatenation of the strings written one after the other
RECURSIVE Concat(_)
Concat(strings) ==
    IF strings = <<>> THEN <<>> ELSE Head(strings) \o Concat(Tail(strings))

\* f.readlines(): the lines of the content, each with its "\n" when it has one
RECURSIVE Readlines(_)
Readlines(content) ==
    IF content = <<>> THEN <<>>
    ELSE IF \A i \in 1..Len(content) : content[i] # "\n" THEN <<content>>
    ELSE LET i == CHOOSE k \in 1..Len(content) :
                     content[k] = "\n" /\ \A j \in 1..(k - 1) : content[j] # "\n"
         IN <<SubSeq(content, 1, i)>> \o Readlines(SubSeq(content, i + 1, Len(content)))

Root == <<"r", "o", "o", "t">>

\* what the loop writes for one line of /etc/shadow
rewrite_shadow_line(line) ==
    IF StartsWith(line, Root \o <<":">>)
    THEN LET fields == Split(line, ":")
         IN Root \o <<":", ":">> \o Join(SubSeq(fields, 3, Len(fields)), ":")
    ELSE line

\* the content of /etc/shadow after the rewrite (readlines, seek(0), one
\* write per line, truncate)
remove_root_password(content) ==
    LET lines == Readlines(content)
    IN Concat([i \in 1..Len(lines) |-> rewrite_shadow_line(lines[i])])

\* lines of a shadow file, without their terminator: an account (root, rootx
\* or d) followed by up to MaxShadowFields fields, each empty or "x"
ShadowLines ==
    { Join(<<account>> \o fields, ":") :
        account \in {Root, Root \o <<"x">>, <<"d">>},
        fields \in SeqsUpTo({<<>>, <<"x">>}, MaxShadowFields) }

\* shadow files: every line ends in "\n", except perhaps the last
ShadowFiles ==
    { Concat([i \in 1..Len(lines) |->
                 lines[i] \o (IF i = Len(lines) /\ ~newline_at_end THEN <<>> ELSE <<"\n">>)]) :
        lines \in SeqsUpTo(ShadowLines, MaxShadowLines), newline_at_end \in BOOLEAN }

InitShadow ==
    /\ pc = "call_remove_root_password"
    /\ args \in [target : {"rpi4"}, media : {Dev \o <<"s", "d", "a">>},
                 image : {<<"f", ".", "x", "z">>},
                 flags : {{"norootpass"}, {"norootpass", "dry_run"}}]
    /\ hist = <<>>
    /\ log = {}
    /\ exc = NoExc
    /\ status = -1
    /\ mounted = {"boot", "root"}
    /\ device = "written"
    /\ probe \in [shadow : ShadowFiles, written : {None}]
    /\ parts = <<>>
    /\ tempdir = "created"

\* the norootpass branch of config.apply_post_write_configs
CallRemoveRootPassword ==
    /\ pc = "call_remove_root_password"
    /\ IF Has("dry_run")
       THEN /\ log' = log \cup {Entry("dry-run", "edit_shadow")}
            /\ UNCHANGED <<hist, probe>>
       ELSE /\ hist' = Append(hist, Op("edit_shadow", TRUE))
            /\ probe' = [probe EXCEPT !.written = <<remove_root_password(probe.shadow)>>]
            /\ log' = log \cup {Entry("info", "root_password_removed")}
    /\ pc' = "returned"
    /\ UNCHANGED <<args, exc, status, mounted, device, parts, tempdir>>

NextShadow == CallRemoveRootPassword

SpecShadow == InitShadow /\ [][NextShadow]_vars

\* ------------------------------------- kernel command-line rewrite on its own
\* Boot-entry lines are sequences of pieces of text: a space, a line
\* terminator, or a run of characters cut so that every text the rewrite
\* looks for (" rhgb", " quiet", "console=", "options") is whole pieces.
MaxEntryLines == 2

\* str.replace(old, ""): every occurrence of old, left to right, removed
RECURSIVE Remove(_, _)
Remove(s, old) ==
    IF Len(s) < Len(old) THEN s
    ELSE IF StartsWith(s, old) THEN Remove(SubSeq(s, Len(old) + 1, Len(s)), old)
    ELSE <<Head(s)>> \o Remove(Tail(s), old)

\* uboot.get_default_console
get_default_console(target, image_path) ==
    LET normalized == resolve_board(target)
    IN IF normalized = "RaspberryPi4-64"
       THEN IF \/ Contains(image_path, <<"I", "o", "T">>)
               \/ Contains(image_path, <<"S", "e", "r", "v", "e", "r">>)
            THEN "ttyS0,115200"
            ELSE "ttyS1,115200"
       ELSE "ttyAMA0,115200"

rewrite_options_line_sysrq_first(line) ==
    LET stripped == Strip(line)
        shown == IF Has("showboot")
                 THEN Remove(Remove(stripped, <<" ", "rhgb">>), <<" ", "quiet">>)
                 ELSE stripped
    IN shown
       \o (IF Has("sysrq") THEN <<" ", "sysrq_always_enabled=1">> ELSE <<>>)
       \o (IF Has("addconsole") /\ ~Contains(shown, <<"console=">>)
           THEN <<" ", "console=", get_default_console(args.target, args.image)>>
           ELSE <<>>)
       \o (IF args.extra # <<>> THEN <<" ">> \o args.extra ELSE <<>>)
       \o <<"\n">>

\* what the loop makes of a line that starts with "options"
rewrite_options_line(line) ==
    LET stripped == Strip(line)
        shown == IF Has("showboot")
                 THEN Remove(Remove(stripped, <<" ", "rhgb">>), <<" ", "quiet">>)
                 ELSE stripped
        consoled == IF Has("addconsole") /\ ~Contains(shown, <<"console=">>)
                    THEN shown \o <<" ", "console=",
                                    get_default_console(args.target, args.image)>>
                    ELSE shown
        extended == IF args.extra # <<>> THEN consoled \o <<" ">> \o args.extra
                    ELSE consoled
        sysrqd == IF Has("sysrq") THEN extended \o <<" ", "sysrq_always_enabled=1">>
                  ELSE extended
    IN sysrqd \o <<"\n">>

rewrite_entry_line_any(line) == rewrite_options_line(line)

\* the loop body: what is written for one line of an entry file
rewrite_entry_line(line) ==
    IF StartsWith(line, <<"options">>) THEN rewrite_options_line(line) ELSE line

\* the content of an entry file after the rewrite (readlines, seek(0), one
\* write per line, truncate)
rewrite_entry(content) ==
    LET lines == Readlines(content)
    IN Concat([i \in 1..Len(lines) |-> rewrite_entry_line(lines[i])])

\* lines of a boot entry, without their terminator
EntryLines ==
    { <<"options", " ", "root=x", " ", "ro", " ", "rhgb", " ", "quiet">>,
      <<"options", " ", "ro", " ", "console=", "tty0">>,
      <<"options", " ", "quiet", " ", "ro", " ">>,
      <<"options", " ", "ro", " ", "quiet", "ly">>,
      <<"options">>,
      <<"title", " ", "Fedora">>,
      <<" ", "options", " ", "quiet">>,
      <<>> }

\* entry files: every line ends in "\n", except perhaps the last
EntryFiles ==
    { Concat([i \in 1..Len(lines) |->
                 lines[i] \o (IF i = Len(lines) /\ ~newline_at_end THEN <<>> ELSE <<"\n">>)]) :
        lines \in SeqsUpTo(EntryLines, MaxEntryLines), newline_at_end \in BOOLEAN }

\* --args: absent (or empty), or the text to append
ExtraArgs == { <<>>, <<"debug">> }

InitCmdline ==
    /\ pc = "call_rewrite_entries"
    /\ args \in [target : {"rpi4", "pine64_plus"}, media : {Dev \o <<"s", "d", "a">>},
                 image : {<<"f", ".", "x", "z">>, <<"d", ".", "d", "/", "I", "o", "T">>},
                 flags : SUBSET {"dry_run", "showboot", "addconsole", "sysrq"},
                 extra : ExtraArgs]
    /\ hist = <<>>
    /\ log = {}
    /\ exc = NoExc
    /\ status = -1
    /\ mounted = {"boot", "root"}
    /\ device = "written"
    /\ probe \in [entry : {None} \cup { <<content>> : content \in EntryFiles },
                  written : {None}]
    /\ parts = <<>>
    /\ tempdir = "created"

\* the kernel-arguments part of config.apply_bootloader_configs, on a
\* loader/entries directory that is missing (None) or holds one entry file
CallRewriteEntries ==
    /\ pc = "call_rewrite_entries"
    /\ IF Has("dry_run")
       THEN /\ log' = log \cup {Entry("dry-run", "edit_loader_entries")}
            /\ UNCHANGED <<hist, probe>>
       ELSE IF probe.entry = None
       THEN /\ log' = log \cup {Entry("warning", "loader_entries_missing")}
            /\ UNCHANGED <<hist, probe>>
       ELSE /\ hist' = Append(hist, Op("edit_loader_entries", TRUE))
            /\ probe' = [probe EXCEPT !.written = <<rewrite_entry(probe.entry[1])>>]
            /\ log' = log \cup {Entry("info", "kernel_arguments_updated")}
    /\ pc' = "returned"
    /\ UNCHANGED <<args, exc, status, mounted, device, parts, tempdir>>

NextCmdline == CallRewriteEntries

SpecCmdline == InitCmdline /\ [][NextCmdline]_vars

\* ------------------------------------------------- install_uboot on its own
UbootTargets == {"rpi4", "pine64_plus", "rockpro64-rk3399", "beagleplay", "bogus"}

InitUboot ==
    /\ pc = "call_install_uboot"
    /\ args \in [target : UbootTargets, media : PartitionMedias,
                 image : {<<"f", ".", "x", "z">>}, flags : {{}, {"dry_run"}}]
    /\ hist = <<>>
    /\ log = {}
    /\ exc = NoExc
    /\ status = -1
    /\ mounted = {"boot", "root"}
    /\ device = "written"
    /\ probe \in [image_exists : BOOLEAN, host_exists : BOOLEAN,
                  bin : {"none"}, dd : {None}]
    /\ parts = <<>>
    /\ tempdir = "created"

\* one call of uboot.install_uboot(target, media, root_mount, dry_run)
CallInstallUboot ==
    /\ pc = "call_install_uboot"
    /\ \E out \in uboot_outcomes(args.target, args.media, Has("dry_run"),
                                  probe.image_exists, probe.host_exists) :
          /\ hist' = hist \o out.ops
          /\ log' = log \cup out.log
          /\ probe' = [probe EXCEPT !.bin = out.bin, !.dd = out.dd]
          /\ device' = IF out.dd = None THEN device
                       ELSE IF out.exc = NoExc THEN "bootloader_written"
                       ELSE "bootloader_unfinished"
          /\ IF out.exc = NoExc THEN pc' = "returned" /\ UNCHANGED <<exc, status>>
             ELSE Exits(out.exc)
    /\ UNCHANGED <<args, mounted, parts, tempdir>>

NextUboot == CallInstallUboot

SpecUboot == InitUboot /\ [][NextUboot]_vars

\* ----------------------------------------- resize_root_partition on its own
InitResize ==
    /\ pc = "call_resize_root_partition"
    /\ args \in [target : {"rpi4"}, media : PartitionMedias,
                 image : {<<"f", ".", "x", "z">>}, flags : {{"resizefs"}, {"resizefs", "dry_run"}}]
    /\ hist = <<>>
    /\ log = {}
    /\ exc = NoExc
    /\ status = -1
    /\ mounted = {}
    /\ device = "written"
    /\ probe \in [blkid_ok : BOOLEAN, fs_type : FsTypes, findmnt : FindmntOutputs,
                  at : {None}]
    /\ parts = <<args.media \o <<"2">>, args.media \o <<"3">>>>
    /\ tempdir = "removed"

\* one call of resize.resize_root_partition(root_part, dry_run), blkid and
\* findmnt answering as probe says
CallResizeRootPartition ==
    /\ pc = "call_resize_root_partition"
    /\ \E out \in resize_outcomes(Has("dry_run"), probe.blkid_ok, probe.fs_type,
                                   probe.findmnt) :
          /\ hist' = hist \o out.ops
          /\ log' = log \cup out.log
          /\ probe' = [probe EXCEPT !.at = out.at]
          /\ IF out.exc = NoExc THEN pc' = "returned" /\ UNCHANGED <<exc, status>>
             ELSE Exits(out.exc)
    /\ UNCHANGED <<args, mounted, device, parts, tempdir>>

NextResize == CallResizeRootPartition

SpecResize == InitResize /\ [][NextResize]_vars

Next ==
    \/ Start
    \/ ValidateBoard
    \/ Confirm
    \/ ValidateMediaDevice
    \/ StreamWriteImage
    \/ FindPartitions
    \/ EnterTempDir
    \/ MountBoot
    \/ MountRoot
    \/ ApplyPostWriteConfigs
    \/ ApplyBootloaderConfigs
    \/ InstallUboot
    \/ UmountRoot
    \/ UmountBoot
    \/ GrowPartition
    \/ ResizeRootPartition
    \/ Cleanup

Spec == Init /\ [][Next]_vars

\* ------------------------------------------------------ reading the history
Did(op) == \E i \in 1..Len(hist) : hist[i].op = op

DidOk(op) == \E i \in 1..Len(hist) : hist[i] = Op(op, TRUE)

Failed(op) == \E i \in 1..Len(hist) : hist[i] = Op(op, FALSE)

Count(op) == Cardinality({i \in 1..Len(hist) : hist[i].op = op})

FileEdits == {"edit_authorized_keys", "edit_shadow", "create_autorelabel",
              "edit_loader_entries", "edit_ignition", "write_wifi"}

Mounts == {"mount_boot", "mount_root"}

Umounts == {"umount_root", "umount_boot"}

ResizeCommands == {"e2fsck", "resize2fs", "xfs_growfs", "btrfs_resize"}

\* what changes the device, the media's filesystems or the mount table
MutatingOps == {"write_image", "dd", "parted"} \cup Mounts \cup Umounts
               \cup FileEdits \cup ResizeCommands

Untouched ==
    /\ device = "untouched"
    /\ mounted = {}
    /\ \A i \in 1..Len(hist) : hist[i].op \notin MutatingOps

ValidationPassed ==
    /\ DidOk("validate_board")
    /\ DidOk("validate_media_device")
    /\ DidOk("validate_image_format")

MountOf == [mp \in {"boot", "root"} |-> IF mp = "boot" THEN "mount_boot" ELSE "mount_root"]

UmountOf == [mp \in {"boot", "root"} |-> IF mp = "boot" THEN "umount_boot" ELSE "umount_root"]

\* what runs inside each mounted_partition's with body
BodyOps ==
    [mp \in {"boot", "root"} |->
        FileEdits \cup {"uboot_lookup", "dd"}
        \cup (IF mp = "boot" THEN {"mount_root", "umount_root"} ELSE {})]

BodyPcs ==
    [mp \in {"boot", "root"} |->
        {"post_write", "bootloader_configs", "install_uboot"}
        \cup (IF mp = "boot" THEN {"mount_root", "umount_root"} ELSE {})]

AfterBlockPcs == {"grow", "resize", "cleanup", "exit"}

\* ------------------------------------------------------------------ claims

\* C1: once mounted_partition has mounted a partition, whatever the body does
\* (it completes, it raises, it exits the process), the umount of that mount
\* point is issued exactly once, after the body has ended: none while the body
\* runs, one once the block is left, and no step of the body after it.
C1_MountUnmountPairing ==
    \A mp \in {"boot", "root"} :
        DidOk(MountOf[mp]) =>
            /\ Count(UmountOf[mp]) <= 1
            /\ pc \in BodyPcs[mp] => Count(UmountOf[mp]) = 0
            /\ pc \in AfterBlockPcs => Count(UmountOf[mp]) = 1
            /\ \A i \in 1..Len(hist) : \A j \in 1..Len(hist) :
                  (hist[i].op = UmountOf[mp] /\ i < j) => hist[j].op \notin BodyOps[mp]

\* C1's case: the body raised (dd failed) and both umounts were issued once
C1_Witness ==
    /\ pc = "exit"
    /\ Failed("dd")
    /\ Count("umount_root") = 1
    /\ Count("umount_boot") = 1

\* C2: nothing destructive happens before the board, the device and the image
\* format have all been validated, and a failed validation ends the process
\* with the device untouched.
C2_FailFast ==
    /\ \A i \in 1..Len(hist) :
          hist[i].op \in MutatingOps =>
             \A v \in {"validate_board", "validate_media_device", "validate_image_format"} :
                \E j \in 1..(i - 1) : hist[j] = Op(v, TRUE)
    /\ ~Untouched => ValidationPassed
    /\ (Failed("validate_board") \/ Failed("validate_media_device")
        \/ Failed("validate_image_format"))
          => pc = "exit" /\ status # 0 /\ Untouched

\* C2's case: a run that was about to write is stopped by the format check
C2_Witness ==
    /\ pc = "exit"
    /\ ~Has("dry_run")
    /\ DidOk("validate_media_device")
    /\ Failed("validate_image_format")
    /\ Untouched

\* C3: with dry-run set nothing is written to the device, nothing is mounted
\* or unmounted, no file of the media is created or edited, and none of dd,
\* parted, e2fsck, resize2fs, xfs_growfs, btrfs is run.
C3_DryRunNoMutation == Has("dry_run") => Untouched

\* C3's case: a dry run with options set that went all the way through resize
C3_Witness ==
    /\ pc = "exit"
    /\ status = 0
    /\ {"dry_run", "resizefs", "addkey", "wifi_ssid"} \subseteq args.flags
    /\ Entry("dry-run", "resize2fs") \in log
    /\ uboot_entry(resolve_board(args.target)) # None

\* C4: when the body guarded by mounted_partition fails and the umount that
\* follows fails too, the failure that leaves the block is the body's, and
\* the umount's failure is logged.
C4_BodyFailureNotMasked ==
    (/\ pc = "cleanup"
     /\ \E i \in 1..Len(hist) : hist[i].op \in BodyOps["root"] /\ ~hist[i].ok
     /\ Failed("umount_root") \/ Failed("umount_boot"))
    => /\ exc.origin \in BodyOps["root"]
       /\ Entry("error", "umount_failed") \in log

\* C5: a dry run that passed the three validations ends with status 0,
\* whatever the external tools answer.
C5_DryRunExitsZero ==
    (pc = "exit" /\ Has("dry_run") /\ ValidationPassed) => status = 0

\* the [DRY-RUN] entry that names each action a request asks for
IntentEntries ==
    {Entry("dry-run", "write_image")}
    \cup (IF Has("addkey") THEN {Entry("dry-run", "edit_authorized_keys")} ELSE {})
    \cup (IF Has("norootpass") THEN {Entry("dry-run", "edit_shadow")} ELSE {})
    \cup (IF Has("relabel") THEN {Entry("dry-run", "create_autorelabel")} ELSE {})
    \cup (IF Has("cmdline") THEN {Entry("dry-run", "edit_loader_entries")} ELSE {})
    \cup (IF Has("ign_url") THEN {Entry("dry-run", "edit_ignition")} ELSE {})
    \cup (IF Has("wifi_ssid") THEN {Entry("dry-run", "write_wifi")} ELSE {})
    \cup (IF uboot_entry(resolve_board(args.target)) # None
          THEN {Entry("dry-run", "dd")} ELSE {})
    \cup (IF Has("resizefs")
          THEN {Entry("dry-run", "parted"), Entry("dry-run", "resize2fs")} ELSE {})

\* C6: a dry run that passed validation and ran to its end has logged an
\* intent entry for every action the request asks for.
C6_DryRunLogsEveryAction ==
    (pc = "exit" /\ status = 0 /\ Has("dry_run") /\ ValidationPassed)
       => IntentEntries \subseteq log

\* the pipeline's steps in the order the spec gives them
Rank(op) ==
    CASE op = "validate_board" -> 0
      [] op = "confirm" -> 1
      [] op = "validate_media_device" -> 2
      [] op = "validate_image_format" -> 3
      [] op = "write_image" -> 4
      [] op = "lsblk" -> 5
      [] op = "mount_boot" -> 6
      [] op = "mount_root" -> 7
      [] op \in {"edit_authorized_keys", "edit_shadow", "create_autorelabel"} -> 8
      [] op \in {"edit_loader_entries", "edit_ignition", "write_wifi"} -> 9
      [] op \in {"uboot_lookup", "dd"} -> 10
      [] op = "umount_root" -> 11
      [] op = "umount_boot" -> 12
      [] op = "parted" -> 13
      [] op \in {"blkid", "findmnt"} \cup ResizeCommands -> 14

InPipelineOrder ==
    \A i \in 1..Len(hist) : \A j \in 1..Len(hist) :
        i < j => Rank(hist[i].op) <= Rank(hist[j].op)

ResizeOnlyAfterUnmount ==
    /\ Did("parted") =>
          /\ Has("resizefs")
          /\ mounted = {}
          /\ DidOk("mount_boot") /\ DidOk("mount_root")
          /\ DidOk("umount_root") /\ DidOk("umount_boot")
    /\ (\E op \in {"blkid", "findmnt"} \cup ResizeCommands : Did(op)) => DidOk("parted")

\* C7 as stated: the steps occur in the pipeline's order and every step,
\* the unmounts included, starts only after all before it succeeded.
C7_PipelineOrderStrict ==
    /\ InPipelineOrder
    /\ ResizeOnlyAfterUnmount
    /\ \A i \in 1..Len(hist) : \A j \in 1..Len(hist) : i < j => hist[i].ok

\* C7 amended: the steps occur in the pipeline's order; every step other than
\* an unmount starts only after all before it succeeded; an unmount follows a
\* successful mount of its partition, whether or not the steps inside the
\* block succeeded; the grow precedes the resize and both come after both
\* partitions were unmounted, and only when resize is requested.
C7_PipelineOrder ==
    /\ InPipelineOrder
    /\ ResizeOnlyAfterUnmount
    /\ \A i \in 1..Len(hist) : \A j \in 1..Len(hist) :
          (i < j /\ hist[j].op \notin Umounts) => hist[i].ok
    /\ \A mp \in {"boot", "root"} :
          \A j \in 1..Len(hist) :
             hist[j].op = UmountOf[mp] => \E i \in 1..(j - 1) : hist[i] = Op(MountOf[mp], TRUE)

\* C7's case: a run that took every step, through the resize
C7_Witness ==
    /\ pc = "exit"
    /\ status = 0
    /\ DidOk("edit_shadow")
    /\ DidOk("write_wifi")
    /\ DidOk("dd")
    /\ DidOk("resize2fs")

DestructiveOps == {"write_image", "dd", "parted"} \cup FileEdits \cup ResizeCommands

\* C8: after a failed image write, file edit, bootloader write, partition
\* grow or filesystem grow, nothing but the pending unmounts runs: the step
\* is not run again, no other step starts, and the exit status is not 0.
C8_NoRetryNoContinuation ==
    \A i \in 1..Len(hist) :
        (hist[i].op \in DestructiveOps /\ ~hist[i].ok) =>
            /\ \A j \in 1..Len(hist) : i < j => hist[j].op \in Umounts
            /\ Count(hist[i].op) = 1
            /\ pc \in {"umount_root", "umount_boot", "cleanup", "exit"}
            /\ exc # NoExc
            /\ pc = "exit" => status # 0

\* C8's case: the shadow edit failed, both unmounts ran, the process failed
C8_Witness ==
    /\ pc = "exit"
    /\ Failed("edit_shadow")
    /\ DidOk("umount_root")
    /\ DidOk("umount_boot")
    /\ status = 1

\* C9: without dry-run and assume-yes the prompt is answered with yes before
\* the device is validated and before anything destructive; any other answer
\* ends the process with the device neither validated nor touched; the prompt
\* is not shown when dry-run or assume-yes is set.
C9_ConfirmationGate ==
    /\ (~Has("dry_run") /\ ~Has("assumeyes")) =>
          \A i \in 1..Len(hist) :
             hist[i].op \in {"validate_media_device", "validate_image_format"} \cup MutatingOps
                => \E j \in 1..(i - 1) : hist[j] = Op("confirm", TRUE)
    /\ Failed("confirm") =>
          /\ pc = "exit"
          /\ status # 0
          /\ ~Did("validate_media_device")
          /\ ~Did("validate_image_format")
          /\ Untouched
    /\ Did("confirm") => (~Has("dry_run") /\ ~Has("assumeyes"))

\* C9's case: the prompt was answered with something other than yes
C9_Witness ==
    /\ pc = "exit"
    /\ Failed("confirm")
    /\ DidOk("validate_board")

PrefixAllowed(path) == \E prefix \in SAFE_DEVICE_PREFIXES : StartsWith(path, prefix)

InUse(path, partitions) == \E p \in partitions : StartsWith(p, path)

\* C10: validate_media_device returns normally exactly when the path has an
\* allow-listed prefix, exists and no mounted partition's device path starts
\* with it; a bad prefix is reported first, then a missing path, then a busy
\* device; and the call changes nothing.
C10_ValidateMediaDevice ==
    pc # "call_validate_media_device" =>
        /\ pc = "returned" <=>
              (/\ PrefixAllowed(args.media)
               /\ probe.exists
               /\ ~InUse(args.media, probe.partitions))
        /\ pc \in {"returned", "exit"}
        /\ pc = "returned" <=> probe.result = "ok"
        /\ ~PrefixAllowed(args.media) => probe.result = "invalid"
        /\ (PrefixAllowed(args.media) /\ ~probe.exists) => probe.result = "notfound"
        /\ (PrefixAllowed(args.media) /\ probe.exists
            /\ InUse(args.media, probe.partitions)) => probe.result = "busy"
        /\ pc = "exit" => status # 0
        /\ Untouched

\* C10's case: a path with a bad prefix that does not exist fails as invalid
C10_Witness ==
    /\ pc = "exit"
    /\ ~PrefixAllowed(args.media)
    /\ ~probe.exists
    /\ probe.result = "invalid"

\* ---------------------------------------------------------------- C11, C12
\* a label holds the word when one of its words does, whatever the case
LabelHas(label, word) == \E i \in 1..Len(label) : Contains(Lower(label[i]), word)

\* the device nodes of the printed partitions whose label holds the word
Labelled(word) ==
    IF probe.printed
    THEN { Dev \o lsblk_rows(args.media, probe.labels)[i + 1][1] :
             i \in { j \in 1..Len(probe.labels) : LabelHas(probe.labels[j], word) } }
    ELSE {}

FallbackPair == <<args.media \o <<"2">>, args.media \o <<"3">>>>

\* C11: find_partitions returns a partition whose label contains "boot" as
\* boot and one whose label contains "root" as root when both exist, and the
\* pair (device + "2", device + "3") when either is missing
C11_LabelSelection ==
    pc = "returned" =>
        IF Labelled(<<"b", "o", "o", "t">>) # {} /\ Labelled(<<"r", "o", "o", "t">>) # {}
        THEN /\ parts[1] \in Labelled(<<"b", "o", "o", "t">>)
             /\ parts[2] \in Labelled(<<"r", "o", "o", "t">>)
        ELSE parts = FallbackPair

\* C12: find_partitions always returns a partition pair, the fallback pair
\* when lsblk exits with an error or prints nothing, and never raises
C12_FindPartitionsNeverFails ==
    pc # "call_find_partitions" =>
        /\ pc = "returned"
        /\ exc = NoExc
        /\ (~probe.lsblk_ok \/ ~probe.printed) => parts = FallbackPair

\* ---------------------------------------------------------------- C13, C14
\* the lines of the boards file that do not end in "Devices:"
BoardListLines ==
    IF probe.file = None THEN {}
    ELSE { probe.file[1][i] : i \in { k \in 1..Len(probe.file[1]) :
               /\ probe.file[1][k] # <<>>
               /\ probe.file[1][k][Len(probe.file[1][k])] \notin DevicesWords } }

\* C13: validate_board exits with a non-zero status when the resolved name is
\* absent from a non-empty supported-boards list, never fails when the list
\* is missing or empty, and counts no word of a line ending in "Devices:" as
\* a board unless a line of board names holds it too
C13_ValidateBoard ==
    pc # "call_validate_board" =>
        /\ (probe.boards # {} /\ probe.canonical[1] \notin probe.boards)
              => (pc = "exit" /\ status # 0 /\ exc.type = "SystemExit")
        /\ (probe.file = None \/ probe.boards = {})
              => (pc = "returned" /\ exc = NoExc)
        /\ probe.file = None => probe.boards = {}
        /\ \A b \in probe.boards :
              \E line \in BoardListLines : \E j \in 1..Len(line) : line[j] = b

\* a board named only on a header line is refused
C13_Witness ==
    /\ pc = "exit"
    /\ status = 1
    /\ args.target = "pine64_plus"
    /\ probe.file = << << <<"pine64_plus", "rk33xxDevices:">>,
                          <<"RaspberryPi4-64", "RaspberryPi3-64">> >> >>
    /\ probe.boards = {"RaspberryPi4-64", "RaspberryPi3-64"}

\* C14: resolving a resolved name changes nothing, and resolve_board returns
\* every name that is not an alias as it is
C14_ResolveIdempotent ==
    pc # "call_validate_board" =>
        /\ resolve_board(probe.canonical[1]) = probe.canonical[1]
        /\ args.target \notin {"rpi4", "pi4", "rpi3", "pi3", "x13s"}
              => probe.canonical[1] = args.target

\* an alias was resolved to another name
C14_Witness ==
    /\ pc = "returned"
    /\ args.target = "pi4"
    /\ probe.canonical = <<"RaspberryPi4-64">>

\* ---------------------------------------------------------------------- C15
\* a line without its "\n", and the "\n" it ends in (or nothing)
Body(line) ==
    IF line # <<>> /\ line[Len(line)] = "\n" THEN SubSeq(line, 1, Len(line) - 1) ELSE line

Terminator(line) == IF line # <<>> /\ line[Len(line)] = "\n" THEN <<"\n">> ELSE <<>>

\* the line has a password field and its account field is exactly root
IsRootLine(line) ==
    LET fields == Split(Body(line), ":") IN Len(fields) >= 2 /\ fields[1] = Root

\* C15: after root password removal the file has the same lines in the same
\* places; a line whose account field is root has an empty password field
\* and all its other fields and its terminator as before, and every other
\* line is as it was
C15_ShadowRewrite ==
    (pc = "returned" /\ probe.written # None) =>
        LET before == Readlines(probe.shadow)
            after == Readlines(probe.written[1])
        IN /\ Len(after) = Len(before)
           /\ \A i \in 1..Len(before) :
                 IF IsRootLine(before[i])
                 THEN LET was == Split(Body(before[i]), ":")
                          is == Split(Body(after[i]), ":")
                      IN /\ Terminator(after[i]) = Terminator(before[i])
                         /\ Len(is) = Len(was)
                         /\ is[1] = Root
                         /\ is[2] = <<>>
                         /\ \A k \in 3..Len(was) : is[k] = was[k]
                 ELSE after[i] = before[i]

\* ---------------------------------------------------------------- C16, C19
OptionsKeyword == <<"options">>

\* the pieces of s at the positions in keep, in their order
Pick(s, keep) ==
    LET picked[n \in 0..Len(s)] ==
            IF n = 0 THEN <<>>
            ELSE IF n \in keep THEN Append(picked[n - 1], s[n]) ELSE picked[n - 1]
    IN picked[Len(s)]

\* s without its " rhgb" and " quiet"
WithoutQuietTokens(s) ==
    Pick(s, { i \in 1..Len(s) :
                /\ ~(s[i] = " " /\ i < Len(s) /\ s[i + 1] \in {"rhgb", "quiet"})
                /\ ~(s[i] \in {"rhgb", "quiet"} /\ i > 1 /\ s[i - 1] = " ") })

\* the options line the claim describes: the line without the surrounding
\* whitespace, then the four mutations in their order, then the terminator
ExpectedOptionsLine(line) ==
    (IF Has("showboot") THEN WithoutQuietTokens(Strip(line)) ELSE Strip(line))
    \o (IF Has("addconsole") /\ ~Contains(line, <<"console=">>)
        THEN <<" ", "console=", get_default_console(args.target, args.image)>>
        ELSE <<>>)
    \o (IF args.extra # <<>> THEN <<" ">> \o args.extra ELSE <<>>)
    \o (IF Has("sysrq") THEN <<" ", "sysrq_always_enabled=1">> ELSE <<>>)
    \o <<"\n">>

\* C16: an options line is rewritten by removing " rhgb" and " quiet" when
\* boot messages are to be shown, then appending " console=<board console>"
\* exactly when asked and "console=" is nowhere in the line, then the extra
\* arguments as given, then the sysrq token last
C16_OptionsLineRewrite ==
    (pc = "returned" /\ probe.written # None) =>
        LET before == Readlines(probe.entry[1])
            after == Readlines(probe.written[1])
        IN \A i \in 1..Len(before) :
              StartsWith(before[i], OptionsKeyword) =>
                  /\ i <= Len(after)
                  /\ after[i] = ExpectedOptionsLine(before[i])

\* all four mutations applied to one line
C16_Witness ==
    /\ pc = "returned"
    /\ args.flags = {"showboot", "addconsole", "sysrq"}
    /\ args.extra = <<"debug">>
    /\ args.target = "rpi4"
    /\ probe.entry = << <<"options", " ", "root=x", " ", "ro", " ", "rhgb", " ", "quiet", "\n">> >>
    /\ probe.written = << <<"options", " ", "root=x", " ", "ro",
                            " ", "console=", "ttyS1,115200", " ", "debug",
                            " ", "sysrq_always_enabled=1", "\n">> >>

HasBootloaderSpec == uboot_entry(args.target) # None

\* C17: without a BootloaderSpec install_uboot writes nothing and returns;
\* with one it takes the binary of the image when that exists and the
\* host's only otherwise, ends fatally without a write when there is
\* neither, and the one write it issues goes to the raw device at the
\* board's seek in 1024-byte blocks
C17_InstallerDecision ==
    pc # "call_install_uboot" =>
        /\ ~HasBootloaderSpec =>
              (pc = "returned" /\ ~Did("dd") /\ device = "written")
        /\ (HasBootloaderSpec /\ ~probe.image_exists /\ ~probe.host_exists) =>
              (pc = "exit" /\ status # 0 /\ ~Did("dd") /\ device = "written")
        /\ (HasBootloaderSpec /\ probe.image_exists) => probe.bin = "image"
        /\ (HasBootloaderSpec /\ ~probe.image_exists /\ probe.host_exists) =>
              probe.bin = "host"
        /\ Count("dd") <= 1
        /\ Did("dd") <=> probe.dd # None
        /\ Did("dd") =>
              /\ probe.dd[1].if = probe.bin
              /\ probe.dd[1].of = args.media
              /\ probe.dd[1].bs = 1024
              /\ probe.dd[1].seek = BOARD_UBOOT_MAP[args.target][1].seek
        /\ (HasBootloaderSpec /\ ~Has("dry_run")
               /\ (probe.image_exists \/ probe.host_exists)) => Did("dd")

\* the host's binary written at block 64 because the image has none
C17_Witness ==
    /\ pc = "returned"
    /\ args.target = "rockpro64-rk3399"
    /\ ~probe.image_exists
    /\ probe.host_exists
    /\ DidOk("dd")
    /\ probe.dd[1].if = "host"
    /\ probe.dd[1].seek = 64

\* C20: under dry-run install_uboot, for a board with a BootloaderSpec,
\* returns normally with the dd command logged and never runs dd, whether or
\* not the binary exists
C20_DryRunInstallReturns ==
    (pc # "call_install_uboot" /\ Has("dry_run") /\ HasBootloaderSpec) =>
        /\ pc = "returned"
        /\ exc = NoExc
        /\ Entry("dry-run", "dd") \in log
        /\ ~Did("dd")

\* ---------------------------------------------------------------------- C18
\* the commands run so far are exactly these, each but perhaps the last
\* with success
Ran(commands) ==
    /\ Len(hist) = Len(commands)
    /\ \A i \in 1..Len(hist) : hist[i].op = commands[i]
    /\ \A i \in 1..(Len(hist) - 1) : hist[i].ok

AllOk == \A i \in 1..Len(hist) : hist[i].ok

\* C18: once the type is detected, ext4 gets the forced check and then, only
\* after the check succeeded, the grow; xfs gets the xfs grow alone; btrfs
\* gets the mount point looked up and then the grow at that mount point, or
\* a fatal end without a grow when there is no mount point; any other type
\* ends fatally with no check and no grow
C18_ResizeDispatch ==
    (pc # "call_resize_root_partition" /\ ~Has("dry_run") /\ probe.blkid_ok) =>
        /\ pc = "returned" <=> (AllOk /\ exc = NoExc)
        /\ pc = "exit" => status # 0
        /\ probe.fs_type = "ext4" =>
              /\ Ran(<<"blkid", "e2fsck">>) \/ Ran(<<"blkid", "e2fsck", "resize2fs">>)
              /\ DidOk("e2fsck") <=> Did("resize2fs")
        /\ probe.fs_type = "xfs" => Ran(<<"blkid", "xfs_growfs">>)
        /\ probe.fs_type = "btrfs" =>
              /\ Ran(<<"blkid", "findmnt">>) \/ Ran(<<"blkid", "findmnt", "btrfs_resize">>)
              /\ Did("btrfs_resize") <=>
                    (DidOk("findmnt") /\ probe.findmnt \notin {<<>>, <<"\n">>})
              /\ Did("btrfs_resize") =>
                    (probe.at # None /\ probe.at[1] \o <<"\n">> = probe.findmnt)
              /\ (DidOk("findmnt") /\ ~Did("btrfs_resize")) => pc = "exit"
        /\ probe.fs_type \notin {"ext4", "xfs", "btrfs"} =>
              (pc = "exit" /\ Ran(<<"blkid">>))

\* btrfs with no mount point found: a fatal end and no grow
C18_Witness ==
    /\ pc = "exit"
    /\ probe.fs_type = "btrfs"
    /\ probe.findmnt = <<"\n">>
    /\ hist = <<Op("blkid", TRUE), Op("findmnt", TRUE)>>
    /\ exc = Exc("SystemExit", "find_btrfs_mountpoint")

\* ---------------------------------------------------------------------- C21
\* C21: the temporary directory that holds the two mount points is removed
\* only when neither partition is still mounted under it, on every way out
\* of the mount block, a failed umount included
C21_CleanupNeverOverMount ==
    tempdir \notin {"none", "exists"} => (tempdir = "removed" /\ mounted = {})

\* ---------------------------------------------------------------------- C22
\* the first position of the operation in the history (0 when it is absent)
FirstAt(op) ==
    IF Did(op) THEN CHOOSE i \in 1..Len(hist) :
                       hist[i].op = op /\ \A j \in 1..(i - 1) : hist[j].op # op
    ELSE 0

\* the nesting of the two mounts: root is mounted only after boot was; a
\* failed root mount is followed by the boot umount and by no configuration
\* step; root is unmounted before boot; and the boot umount is attempted
\* also when the root umount failed
MountsNested ==
    /\ Did("mount_root") =>
          (DidOk("mount_boot") /\ FirstAt("mount_boot") < FirstAt("mount_root"))
    /\ Failed("mount_root") =>
          /\ \A i \in 1..Len(hist) :
                hist[i].op \notin FileEdits \cup {"uboot_lookup", "dd", "umount_root"}
          /\ pc \in AfterBlockPcs => Did("umount_boot")
    /\ (Did("umount_root") /\ Did("umount_boot")) =>
          FirstAt("umount_root") < FirstAt("umount_boot")
    /\ (Did("umount_root") /\ pc \in AfterBlockPcs) => Did("umount_boot")

\* C22 as stated: the mounts are nested, boot outside root, and when the
\* process ends no partition is still mounted
C22_NoMountLeftDangling ==
    /\ MountsNested
    /\ pc = "exit" => mounted = {}

\* C22: the mounts are nested, boot outside root, and a partition still
\* mounted when the process ends is one whose umount was attempted and
\* failed
C22_NestedMounts ==
    /\ MountsNested
    /\ pc = "exit" => \A mp \in mounted : Failed(UmountOf[mp])

\* the root umount failed, the boot umount was still made, and root stays
\* mounted at the end
C22_Witness ==
    /\ pc = "exit"
    /\ Failed("umount_root")
    /\ DidOk("umount_boot")
    /\ mounted = {"root"}

\* ---------------------------------------------------------------------- C23
\* C23: with none of show-boot-messages, add-console, extra arguments and
\* sysrq requested, the entry file holds after the call what it held before
C23_NoFlagsNoChange ==
    (/\ pc = "returned"
     /\ args.flags \cap {"showboot", "addconsole", "sysrq"} = {}
     /\ args.extra = <<>>
     /\ probe.written # None) => probe.written = probe.entry

====
